---- MODULE Spec2Model ----
(***************************************************************************)
(* Model of the YAML pod validator.  The repository holds three variants   *)
(* of the same program:                                                    *)
(*   "main"  src/main.go           collect-all validatePod                 *)
(*   "p0"    src/unnamed/part_000  fail-fast validatePod, cpu typed int    *)
(*   "p1"    src/unnamed/part_001  fail-fast validatePod, cpu interface{}  *)
(* Each variant is the command line wrapper main (arguments -> ReadFile -> *)
(* yaml.Unmarshal -> validatePod -> exit) around the validation functions. *)
(* Go strings that the code inspects character by character (regexp,       *)
(* TrimSpace, len) are sequences of one-character strings; strings that    *)
(* are only compared for equality are TLA+ strings.                        *)
(***************************************************************************)
EXTENDS Integers, Sequences, FiniteSets, TLC

VARIABLES variant, pc, doc, pod, report, stdout, stderr, exitCode, validated

vars == <<variant, pc, doc, pod, report, stdout, stderr, exitCode, validated>>

Variants == {"main", "p0", "p1"}

(***************************************************************************)
(* Bounds of the model.                                                    *)
(***************************************************************************)
MaxContainers == 2
MaxPorts == 2
PortSlack == 1

(***************************************************************************)
(* Character classes and the regular expressions of the source.            *)
(***************************************************************************)
Lower == {"a","b","c","d","e","f","g","h","i","j","k","l","m",
          "n","o","p","q","r","s","t","u","v","w","x","y","z"}

Upper == {"A","B","C","D","E","F","G","H","I","J","K","L","M",
          "N","O","P","Q","R","S","T","U","V","W","X","Y","Z"}

Digit == {"0","1","2","3","4","5","6","7","8","9"}

\* unicode.IsSpace restricted to the ASCII white space the model uses
Space == {" ", "\t", "\n", "\r"}

AllIn(s, class) == \A i \in 1..Len(s) : s[i] \in class

\* ^[a-z0-9_]+$ with the name class widened to upper case (a plausible slip)
snakeCaseRegexMutant(s) == Len(s) >= 1 /\ AllIn(s, Lower \cup Upper \cup Digit \cup {"_"})

\* snakeCaseRegex := `^[a-z0-9_]+$`
snakeCaseRegex(s) == Len(s) >= 1 /\ AllIn(s, Lower \cup Digit \cup {"_"})

RegistryPrefix == <<"r","e","g","i","s","t","r","y",".",
                    "b","i","g","b","r","o","t","h","e","r",".","i","o","/">>

TagChars == Lower \cup Upper \cup Digit \cup {"_", ".", "-"}

\* imageRegex := `^registry\.bigbrother\.io\/.+:[a-zA-Z0-9_.-]+$`
\* k is the position of the colon that separates `.+` from the tag
imageRegex(s) ==
    LET n == Len(RegistryPrefix) IN
    /\ Len(s) >= n + 3
    /\ SubSeq(s, 1, n) = RegistryPrefix
    /\ \E k \in (n + 2)..(Len(s) - 1) :
          /\ s[k] = ":"
          /\ \A i \in (n + 1)..(k - 1) : s[i] # "\n"
          /\ AllIn(SubSeq(s, k + 1, Len(s)), TagChars)

\* cpuRegex := `^\d+$`
cpuRegex(s) == Len(s) >= 1 /\ AllIn(s, Digit)

\* memoryRegex := `^\d+(Ki|Mi|Gi)$`
memoryRegex(s) ==
    /\ Len(s) >= 3
    /\ SubSeq(s, Len(s) - 1, Len(s)) \in {<<"K","i">>, <<"M","i">>, <<"G","i">>}
    /\ cpuRegex(SubSeq(s, 1, Len(s) - 2))

\* strings.TrimSpace: drop leading and trailing white space
RECURSIVE TrimLeft(_)
TrimLeft(s) == IF s # <<>> /\ Head(s) \in Space THEN TrimLeft(Tail(s)) ELSE s

RECURSIVE TrimRight(_)
TrimRight(s) ==
    IF s # <<>> /\ s[Len(s)] \in Space THEN TrimRight(SubSeq(s, 1, Len(s) - 1)) ELSE s

TrimSpace(s) == TrimRight(TrimLeft(s))

(***************************************************************************)
(* Violation messages.  msg is the format string of the source without its *)
(* file and line prefix; arg is the value the format prints, when any.     *)
(***************************************************************************)
Err(m) == [msg |-> m]

ErrArg(m, a) == [msg |-> m, arg |-> a]

\* first non-empty result of a sequence of results: `if err != nil { return err }`
RECURSIVE FirstErr(_)
FirstErr(rs) ==
    IF rs = <<>> THEN <<>>
    ELSE IF Head(rs) # <<>> THEN Head(rs)
    ELSE FirstErr(Tail(rs))

\* all results appended in order: `validationErrors = append(...)`
RECURSIVE Concat(_)
Concat(rs) == IF rs = <<>> THEN <<>> ELSE Head(rs) \o Concat(Tail(rs))

(***************************************************************************)
(* src/main.go: collect-all validation.                                    *)
(***************************************************************************)
\* the range check with the upper bound off by one
validatePortMutant(port) ==
    IF port.ContainerPort <= 0 \/ port.ContainerPort >= 65535
    THEN <<Err("containerPort value out of range")>>
    ELSE <<>>

validatePort_main(port) ==
    IF port.ContainerPort <= 0 \/ port.ContainerPort > 65535
    THEN <<Err("containerPort value out of range")>>
    ELSE <<>>

validateProbe_main(probe) ==
    IF probe.HTTPGet.Port <= 0 \/ probe.HTTPGet.Port > 65535
    THEN <<Err("port value out of range")>>
    ELSE <<>>

\* type switch on interface{}: only a Go int passes
validateCPU_main(cpu) ==
    IF cpu.tag = "int" THEN <<>> ELSE <<Err("must be int")>>

\* `resources.Requests.CPU != ""` is false only for the string ""
\* (a nil interface differs from ""); limits are not inspected
validateResources_main(resources) ==
    IF ~(resources.Requests.CPU.tag = "string" /\ resources.Requests.CPU.s = <<>>)
    THEN IF validateCPU_main(resources.Requests.CPU) # <<>>
         THEN <<Err("cpu must be int")>>
         ELSE <<>>
    ELSE <<>>

\* body of `for _, container := range pod.Spec.Containers`
containerErrors_main(container) ==
    (IF TrimSpace(container.Name) = <<>> THEN <<Err("name is required")>> ELSE <<>>)
    \o (IF container.Image = <<>> THEN <<Err("container.image is required")>> ELSE <<>>)
    \o (IF Len(container.Ports) = 0
        THEN <<Err("container must define at least one port")>> ELSE <<>>)
    \o Concat([j \in 1..Len(container.Ports) |-> validatePort_main(container.Ports[j])])
    \o validateProbe_main(container.ReadinessProbe)
    \o validateProbe_main(container.LivenessProbe)
    \o validateResources_main(container.Resources)

\* the result is nil exactly when the sequence is empty
validatePod_main(p) ==
    (IF p.APIVersion # "v1" THEN <<Err("APIVersion must be v1")>> ELSE <<>>)
    \o (IF p.Kind # "Pod" THEN <<Err("kind must be Pod")>> ELSE <<>>)
    \o (IF Len(p.Metadata.Name) = 0 THEN <<Err("name is required")>> ELSE <<>>)
    \o (IF p.Spec.OS \notin {"linux", "windows"}
        THEN <<ErrArg("os has unsupported value", p.Spec.OS)>> ELSE <<>>)
    \o (IF Len(p.Spec.Containers) = 0
        THEN <<Err("spec.containers is required")>> ELSE <<>>)
    \o Concat([i \in 1..Len(p.Spec.Containers) |->
                  containerErrors_main(p.Spec.Containers[i])])

(***************************************************************************)
(* src/unnamed/part_000: fail-fast validation, cpu typed int, no probes.   *)
(***************************************************************************)
validateResources_p0(resources) ==
    IF resources.Limits.CPU <= 0
    THEN <<Err("resources.limits.cpu is required and must be positive")>>
    ELSE IF resources.Limits.Memory = <<>>
    THEN <<Err("resources.limits.memory is required")>>
    ELSE IF ~memoryRegex(resources.Limits.Memory)
    THEN <<ErrArg("resources.limits.memory has invalid format", resources.Limits.Memory)>>
    ELSE <<>>

\* body of `for _, port := range container.Ports`
portErrors_p0(port) ==
    IF port.ContainerPort <= 0 \/ port.ContainerPort >= 65536
    THEN <<Err("containerPort value out of range")>>
    ELSE IF port.Protocol # "" /\ port.Protocol # "TCP" /\ port.Protocol # "UDP"
    THEN <<ErrArg("protocol has unsupported value", port.Protocol)>>
    ELSE <<>>

validateContainer_p0(container) ==
    IF ~snakeCaseRegex(container.Name)
    THEN <<ErrArg("containers.name has invalid format", container.Name)>>
    ELSE IF ~imageRegex(container.Image)
    THEN <<ErrArg("containers.image has invalid format", container.Image)>>
    ELSE FirstErr([j \in 1..Len(container.Ports) |-> portErrors_p0(container.Ports[j])]
                  \o <<validateResources_p0(container.Resources)>>)

validatePod_p0(p) ==
    IF p.APIVersion # "v1"
    THEN <<ErrArg("apiVersion has unsupported value", p.APIVersion)>>
    ELSE IF p.Kind # "Pod"
    THEN <<ErrArg("kind has unsupported value", p.Kind)>>
    ELSE IF p.Metadata.Name = <<>>
    THEN <<Err("metadata.name is required")>>
    ELSE IF p.Spec.OS # "linux" /\ p.Spec.OS # "windows"
    THEN <<ErrArg("spec.os has unsupported value", p.Spec.OS)>>
    ELSE IF Len(p.Spec.Containers) = 0
    THEN <<Err("spec.containers is required")>>
    ELSE FirstErr([i \in 1..Len(p.Spec.Containers) |->
                      validateContainer_p0(p.Spec.Containers[i])])

(***************************************************************************)
(* src/unnamed/part_001: fail-fast validation, cpu interface{}, probes.    *)
(***************************************************************************)
validateContainerPort_p1(port) ==
    IF port.ContainerPort < 1 \/ port.ContainerPort > 65535
    THEN <<ErrArg("containerPort value out of range", port.ContainerPort)>>
    ELSE IF port.Protocol # "" /\ port.Protocol # "TCP" /\ port.Protocol # "UDP"
    THEN <<ErrArg("protocol has unsupported value", port.Protocol)>>
    ELSE <<>>

validateProbe_p1(probe, probeName) ==
    IF probe.HTTPGet.Port <= 0 \/ probe.HTTPGet.Port >= 65536
    THEN <<ErrArg("httpGet.port value out of range", probeName)>>
    ELSE <<>>

\* the type switch: int must be positive, string must be all digits,
\* anything else (nil, bool, float64) is an invalid type
cpuErrors_p1(cpu) ==
    IF cpu.tag = "int"
    THEN IF cpu.v <= 0
         THEN <<Err("resources.limits.cpu is required and must be positive")>>
         ELSE <<>>
    ELSE IF cpu.tag = "string"
    THEN IF ~cpuRegex(cpu.s)
         THEN <<ErrArg("resources.limits.cpu has invalid format", cpu.s)>>
         ELSE <<>>
    ELSE <<Err("resources.limits.cpu has invalid type")>>

validateResources_p1(resources) ==
    IF cpuErrors_p1(resources.Limits.CPU) # <<>>
    THEN cpuErrors_p1(resources.Limits.CPU)
    ELSE IF resources.Limits.Memory = <<>>
    THEN <<Err("resources.limits.memory is required")>>
    ELSE IF ~memoryRegex(resources.Limits.Memory)
    THEN <<ErrArg("resources.limits.memory has invalid format", resources.Limits.Memory)>>
    ELSE <<>>

validateContainer_p1(container) ==
    IF ~snakeCaseRegex(container.Name)
    THEN <<ErrArg("containers.name has invalid format", container.Name)>>
    ELSE IF ~imageRegex(container.Image)
    THEN <<ErrArg("containers.image has invalid format", container.Image)>>
    ELSE FirstErr([j \in 1..Len(container.Ports) |->
                      validateContainerPort_p1(container.Ports[j])]
                  \o <<validateResources_p1(container.Resources),
                       validateProbe_p1(container.ReadinessProbe, "readinessProbe"),
                       validateProbe_p1(container.LivenessProbe, "livenessProbe")>>)

validatePod_p1(p) ==
    IF p.APIVersion # "v1"
    THEN <<ErrArg("apiVersion has unsupported value", p.APIVersion)>>
    ELSE IF p.Kind # "Pod"
    THEN <<ErrArg("kind has unsupported value", p.Kind)>>
    ELSE IF p.Metadata.Name = <<>>
    THEN <<Err("metadata.name is required")>>
    ELSE IF p.Spec.OS # "linux" /\ p.Spec.OS # "windows"
    THEN <<ErrArg("spec.os has unsupported value", p.Spec.OS)>>
    ELSE IF Len(p.Spec.Containers) = 0
    THEN <<Err("spec.containers is required")>>
    ELSE FirstErr([i \in 1..Len(p.Spec.Containers) |->
                      validateContainer_p1(p.Spec.Containers[i])])

validatePod(v, p) ==
    CASE v = "main" -> validatePod_main(p)
      [] v = "p0"   -> validatePod_p0(p)
      [] v = "p1"   -> validatePod_p1(p)

(***************************************************************************)
(* The YAML document (the input file once its scalars are resolved) and    *)
(* yaml.Unmarshal into the Pod struct of each variant.  A key that is      *)
(* absent from the document leaves the zero value in the struct: "" for a  *)
(* string, 0 for an int, nil for an interface{}, and a Probe with          *)
(* HTTPGet.Port 0 because the probes are struct values, not pointers.      *)
(***************************************************************************)
sWeb == <<"w","e","b">>

sBlank == <<" ">>

sApi == <<"a","p","i">>

sApiUpper == <<"A","p","i">>

sDash == <<"a","-","b">>

sImage == <<"r","e","g","i","s","t","r","y",".","b","i","g","b","r","o","t","h","e","r",".","i","o","/","a","p","i",":","1",".","0">>

sImageNoTag == <<"r","e","g","i","s","t","r","y",".","b","i","g","b","r","o","t","h","e","r",".","i","o","/","a","p","i">>

sImageOther == <<"n","g","i","n","x",":","1",".","0">>

s256Mi == <<"2","5","6","M","i">>

s512Mi == <<"5","1","2","M","i">>

s0Gi == <<"0","G","i">>

s512 == <<"5","1","2">>

s512GB == <<"5","1","2","G","B">>

s2 == <<"2">>

s0 == <<"0">>

s2p5 == <<"2",".","5">>

sAbc == <<"a","b","c">>

Absent == [defined |-> FALSE]

Defined(p) == [defined |-> TRUE, port |-> p]

CpuNil == [tag |-> "nil"]

CpuInt(n) == [tag |-> "int", v |-> n]

CpuStr(x) == [tag |-> "string", s |-> x]

CpuBool == [tag |-> "bool", b |-> TRUE]

CpuFloat(x) == [tag |-> "float", s |-> x]

Prt(p, pr) == [containerPort |-> p, protocol |-> pr]

Ctr(n, im, ps, rp, lp, cpu, mem, rcpu) ==
    [name |-> n, image |-> im, ports |-> ps, readinessProbe |-> rp, livenessProbe |-> lp,
     limits |-> [cpu |-> cpu, memory |-> mem], requests |-> [cpu |-> rcpu, memory |-> <<>>]]

\* av is the value under the key "apiVersion", avUpper the one under "APIVersion"
Doc(av, avUpper, kd, nm, os, cs) ==
    [apiVersion |-> av, APIVersion |-> avUpper, kind |-> kd, name |-> nm, os |-> os,
     containers |-> cs]

\* Probe struct value: `ReadinessProbe Probe` with `Port int`
DecodeProbe(node) ==
    [HTTPGet |-> [Port |-> IF node.defined THEN node.port ELSE 0]]

\* ResourceLimits.CPU: `int` in part_000, `interface{}` in main.go and part_001
DecodeCPU(v, cpu) ==
    IF v = "p0" THEN (IF cpu.tag = "int" THEN cpu.v ELSE 0) ELSE cpu

DecodeContainer(v, c) ==
    [Name |-> c.name, Image |-> c.image,
     Ports |-> [j \in 1..Len(c.ports) |->
                   [ContainerPort |-> c.ports[j].containerPort,
                    Protocol |-> c.ports[j].protocol]],
     ReadinessProbe |-> DecodeProbe(c.readinessProbe),
     LivenessProbe |-> DecodeProbe(c.livenessProbe),
     Resources |-> [Limits |-> [CPU |-> DecodeCPU(v, c.limits.cpu),
                                Memory |-> c.limits.memory],
                    Requests |-> [CPU |-> DecodeCPU(v, c.requests.cpu),
                                  Memory |-> c.requests.memory]]]

\* the struct tag is `yaml:"APIVersion"` in main.go, `yaml:"apiVersion"` elsewhere
DecodePod(v, d) ==
    [APIVersion |-> IF v = "main" THEN d.APIVersion ELSE d.apiVersion,
     Kind |-> d.kind,
     Metadata |-> [Name |-> d.name],
     Spec |-> [OS |-> d.os,
               Containers |-> [i \in 1..Len(d.containers) |->
                                  DecodeContainer(v, d.containers[i])]]]

\* a scalar that is not an integer cannot be decoded into `CPU int`
TypeError(v, d) ==
    /\ v = "p0"
    /\ \E i \in 1..Len(d.containers) :
          \/ d.containers[i].limits.cpu.tag \notin {"nil", "int"}
          \/ d.containers[i].requests.cpu.tag \notin {"nil", "int"}

\* `var pod Pod`
ZeroPod == [APIVersion |-> "", Kind |-> "", Metadata |-> [Name |-> <<>>],
            Spec |-> [OS |-> "", Containers |-> <<>>]]

(***************************************************************************)
(* Input documents.  Each family varies the fields one group of rules      *)
(* reads and keeps the rest at values every variant accepts.               *)
(***************************************************************************)
SeqsUpTo(S, n) == UNION {[1..k -> S] : k \in 0..n}

\* integers around both ends of the valid range, one in the middle, two far outside
PortValues == ((0 - PortSlack)..PortSlack) \cup ((65535 - PortSlack)..(65535 + PortSlack))
                  \cup {8080, 0 - 2147483647, 2147483647}

ProbeChoices == {Absent} \cup {Defined(p) : p \in PortValues}

PortChoices == {Prt(p, "TCP") : p \in PortValues}
                   \cup {Prt(8080, pr) : pr \in {"", "UDP", "SCTP"}}

CpuChoices == {CpuNil, CpuInt(2), CpuInt(1), CpuInt(0), CpuInt(0 - 1), CpuStr(s2), CpuStr(s0),
               CpuStr(s2p5), CpuStr(sAbc), CpuStr(<<>>), CpuBool, CpuFloat(s2p5)}

MemoryChoices == {s256Mi, s512Mi, s0Gi, <<>>, s512, s512GB, <<"M","i">>}

\* the container of the end-to-end scenario: no probes, no requests
E2EContainer ==
    Ctr(sApi, sImage, <<Prt(8080, "TCP")>>, Absent, Absent, CpuInt(1), s256Mi, CpuNil)

E2EDoc == Doc("v1", "", "Pod", sWeb, "linux", <<E2EContainer>>)

\* a container with both probes and requests.cpu defined
ProbedContainer ==
    Ctr(sApi, sImage, <<Prt(8080, "TCP")>>, Defined(8080), Defined(8080),
        CpuInt(1), s256Mi, CpuInt(1))

OneContainer(c) == Doc("v1", "v1", "Pod", sWeb, "linux", <<c>>)

TopDocs ==
    {Doc(av, avUpper, kd, nm, os, cs) :
        av \in {"v1", "v2", ""}, avUpper \in {"v1", ""}, kd \in {"Pod", "Deployment"},
        nm \in {sWeb, <<>>, sBlank}, os \in {"linux", "windows", "macos"},
        cs \in {<<>>, <<E2EContainer>>, <<ProbedContainer>>}}

ProbeDocs ==
    {OneContainer(Ctr(sApi, sImage, <<Prt(8080, "TCP")>>, rp, lp, cpu, mem, rcpu)) :
        rp \in ProbeChoices, lp \in ProbeChoices, cpu \in {CpuInt(1), CpuInt(0)},
        mem \in {s256Mi, s512}, rcpu \in {CpuNil, CpuInt(1)}}

CpuDocs ==
    {OneContainer(Ctr(sApi, sImage, <<Prt(8080, "TCP")>>, pr, pr, cpu, mem, rcpu)) :
        pr \in {Absent, Defined(8080)}, cpu \in CpuChoices, mem \in {s256Mi, s512},
        rcpu \in {CpuNil, CpuInt(1), CpuStr(s2), CpuStr(<<>>)}}

MemoryDocs ==
    {OneContainer(Ctr(sApi, sImage, <<Prt(8080, "TCP")>>, pr, pr, cpu, mem, CpuInt(1))) :
        pr \in {Absent, Defined(8080)}, cpu \in {CpuInt(1), CpuInt(0), CpuStr(s2)},
        mem \in MemoryChoices}

PortDocs ==
    {OneContainer(Ctr(sApi, sImage, ps, Defined(8080), Defined(8080),
                      CpuInt(1), s256Mi, CpuInt(1))) :
        ps \in SeqsUpTo(PortChoices, MaxPorts)}

NamedContainers ==
    {Ctr(n, im, <<Prt(8080, "TCP")>>, Defined(8080), Defined(8080),
         CpuInt(1), s256Mi, CpuInt(1)) :
        n \in {sApi, sApiUpper, sDash, sBlank, <<>>}, im \in {sImage, sImageOther}}

NameDocs ==
    {Doc(av, av, kd, nm, os, cs) :
        av \in {"v1", "v2"}, kd \in {"Pod", "Deployment"}, nm \in {sWeb, <<>>},
        os \in {"linux", "macos"}, cs \in SeqsUpTo(NamedContainers, MaxContainers)}

ImageDocs ==
    {OneContainer(Ctr(sApi, im, ps, Defined(8080), Defined(8080), cpu, s256Mi, CpuInt(1))) :
        im \in {sImage, sImageNoTag, sImageOther, <<>>},
        ps \in {<<>>, <<Prt(8080, "TCP")>>, <<Prt(0, "SCTP")>>, <<Prt(8080, "SCTP")>>},
        cpu \in {CpuInt(1), CpuInt(0)}}

DocSet == TopDocs \cup ProbeDocs \cup CpuDocs \cup MemoryDocs \cup PortDocs
              \cup NameDocs \cup ImageDocs

(***************************************************************************)
(* The command line wrapper: one run of the program on one input file.     *)
(***************************************************************************)
Out(t) == [text |-> t]

OutErrs(t, errs) == [text |-> t, errs |-> errs]

Init ==
    /\ variant \in Variants
    /\ doc \in DocSet
    /\ pc = "start"
    /\ pod = ZeroPod
    /\ report = <<>>
    /\ stdout = <<>>
    /\ stderr = <<>>
    /\ exitCode = 0
    /\ validated = FALSE

Die(code, message) ==
    /\ pc' = "exited"
    /\ exitCode' = code
    /\ stderr' = Append(stderr, Out(message))
    /\ UNCHANGED <<variant, doc, pod, report, stdout, validated>>

Goto(next) ==
    /\ pc' = next
    /\ UNCHANGED <<variant, doc, pod, report, stdout, stderr, exitCode, validated>>

\* main.go init(): panics (exit status 2) without exactly one argument or when
\* the file does not exist; part_000/part_001: the -file flag must be non-empty
Startup ==
    /\ pc = "start"
    /\ \E given \in BOOLEAN, exists \in BOOLEAN :
          IF variant = "main"
          THEN IF ~given THEN Die(2, "path to yaml is not provided")
               ELSE IF ~exists THEN Die(2, "does not exist")
               ELSE Goto("read")
          ELSE IF ~given THEN Die(1, "YAML file path is required")
               ELSE Goto("read")

\* os.ReadFile
ReadFile ==
    /\ pc = "read"
    /\ \E ok \in BOOLEAN :
          IF ok THEN Goto("parse")
          ELSE Die(1, IF variant = "main" THEN "cannot read file"
                      ELSE "cannot read file content")

\* yaml.Unmarshal: fails on malformed text and on a scalar of the wrong type
Unmarshal ==
    /\ pc = "parse"
    /\ \E wellFormed \in BOOLEAN :
          IF wellFormed /\ ~TypeError(variant, doc)
          THEN /\ pod' = DecodePod(variant, doc)
               /\ pc' = "validate"
               /\ UNCHANGED <<variant, doc, report, stdout, stderr, exitCode, validated>>
          ELSE Die(1, "cannot unmarshal file content")

\* the call of validatePod
Validate ==
    /\ pc = "validate"
    /\ report' = validatePod(variant, pod)
    /\ validated' = TRUE
    /\ pc' = "report"
    /\ UNCHANGED <<variant, doc, pod, stdout, stderr, exitCode>>

\* the end of main: print the error and exit 1, or finish with status 0;
\* main.go prints the error on stdout and prints nothing on success
Finish ==
    /\ pc = "report"
    /\ pc' = "exited"
    /\ IF report # <<>>
       THEN /\ exitCode' = 1
            /\ IF variant = "main"
               THEN /\ stdout' = Append(stdout, OutErrs("validation error", report))
                    /\ UNCHANGED stderr
               ELSE /\ stderr' = Append(stderr, OutErrs("validation error", report))
                    /\ UNCHANGED stdout
       ELSE /\ exitCode' = 0
            /\ IF variant = "main"
               THEN UNCHANGED stdout
               ELSE stdout' = Append(stdout, Out("YAML file is valid"))
            /\ UNCHANGED stderr
    /\ UNCHANGED <<variant, doc, pod, report, validated>>

Next == Startup \/ ReadFile \/ Unmarshal \/ Validate \/ Finish

Spec == Init /\ [][Next]_vars

(***************************************************************************)
(* Vocabulary of the properties.                                           *)
(***************************************************************************)
HasMsg(r, ms) == \E i \in 1..Len(r) : r[i].msg \in ms

Count(r, ms) == Cardinality({i \in 1..Len(r) : r[i].msg \in ms})

InRange(p) == p \in 1..65535

RangeMsg == {"containerPort value out of range"}

ProbeMsg == {"port value out of range", "httpGet.port value out of range"}

CpuMsg == {"resources.limits.cpu is required and must be positive",
           "resources.limits.cpu has invalid format",
           "resources.limits.cpu has invalid type",
           "cpu must be int"}

MemoryMsg == {"resources.limits.memory is required",
              "resources.limits.memory has invalid format"}

NameFormatMsg == {"containers.name has invalid format"}

NameRequiredMsg == {"name is required", "metadata.name is required"}

\* the verdict of each variant's port range check on one port
RangeVerdict_main(port) == HasMsg(validatePort_main(port), RangeMsg)

RangeVerdict_p0(port) == HasMsg(portErrors_p0(port), RangeMsg)

RangeVerdict_p1(port) == HasMsg(validateContainerPort_p1(port), RangeMsg)

Range(f) == {f[i] : i \in DOMAIN f}

PortsOf(p) == UNION {Range(c.Ports) : c \in Range(p.Spec.Containers)}

\* the document level rules, which every variant checks before the containers
DocLevelOK(p) ==
    /\ p.APIVersion = "v1"
    /\ p.Kind = "Pod"
    /\ p.Metadata.Name # <<>>
    /\ p.Spec.OS \in {"linux", "windows"}

validateContainer(v, c) ==
    IF v = "p0" THEN validateContainer_p0(c) ELSE validateContainer_p1(c)

\* a name with an upper case letter or any other character outside [a-z0-9_]
BadName(n) == \E k \in 1..Len(n) : n[k] \notin (Lower \cup Digit \cup {"_"})

(***************************************************************************)
(* C4.  containerPort range: in every variant the port check reports a     *)
(* range violation for a port exactly when its value is outside 1..65535,  *)
(* so the three differently written checks agree on every port; the        *)
(* collect-all report holds one range message per out-of-range port, and a *)
(* fail-fast report is a range message only if some port is out of range   *)
(* and is empty only if every port is in range.                            *)
(***************************************************************************)
C4_PortRange ==
    /\ \A port \in PortsOf(pod) :
          /\ RangeVerdict_main(port) <=> ~InRange(port.ContainerPort)
          /\ RangeVerdict_p0(port) <=> ~InRange(port.ContainerPort)
          /\ RangeVerdict_p1(port) <=> ~InRange(port.ContainerPort)
    /\ validated /\ variant = "main" =>
          Count(report, RangeMsg) =
              Cardinality({<<i, j>> \in (1..Len(pod.Spec.Containers)) \X (1..(MaxPorts + 1)) :
                              /\ j <= Len(pod.Spec.Containers[i].Ports)
                              /\ ~InRange(pod.Spec.Containers[i].Ports[j].ContainerPort)})
    /\ validated /\ variant # "main" =>
          /\ HasMsg(report, RangeMsg) =>
                \E port \in PortsOf(pod) : ~InRange(port.ContainerPort)
          /\ report = <<>> => \A port \in PortsOf(pod) : InRange(port.ContainerPort)

\* a run that validated a document holding the ports 65535 and 65536, in that
\* order, and reported the range violation
C4_Witness ==
    /\ validated
    /\ variant = "p1"
    /\ Len(pod.Spec.Containers) = 1
    /\ Len(pod.Spec.Containers[1].Ports) = 2
    /\ pod.Spec.Containers[1].Ports[1].ContainerPort = 65535
    /\ pod.Spec.Containers[1].Ports[2].ContainerPort = 65536
    /\ report = <<ErrArg("containerPort value out of range", 65536)>>

(***************************************************************************)
(* C5, as stated: in part_000 and part_001 every document with a container *)
(* whose name has a character outside [a-z0-9_] is reported with the       *)
(* name-format violation of that container, whatever its other fields.     *)
(***************************************************************************)
C5_Original ==
    validated /\ variant \in {"p0", "p1"} =>
        \A c \in Range(pod.Spec.Containers) :
            BadName(c.Name) =>
                \E i \in 1..Len(report) :
                    report[i] = ErrArg("containers.name has invalid format", c.Name)

(***************************************************************************)
(* C5, amended: in part_000 and part_001 a document with a container whose *)
(* name has a character outside [a-z0-9_] is never accepted; the report is *)
(* the name-format violation of that container when the document level     *)
(* rules pass and every earlier container passes all its rules, and is the *)
(* single earlier violation otherwise.                                     *)
(***************************************************************************)
C5_Amended ==
    validated /\ variant \in {"p0", "p1"} =>
        \A i \in 1..Len(pod.Spec.Containers) :
            BadName(pod.Spec.Containers[i].Name) =>
                /\ Len(report) = 1
                /\ IF /\ DocLevelOK(pod)
                      /\ \A j \in 1..(i - 1) :
                            validateContainer(variant, pod.Spec.Containers[j]) = <<>>
                   THEN report = <<ErrArg("containers.name has invalid format",
                                          pod.Spec.Containers[i].Name)>>
                   ELSE ~HasMsg(report, NameFormatMsg)
                        \/ \E j \in 1..(i - 1) :
                              report = <<ErrArg("containers.name has invalid format",
                                                pod.Spec.Containers[j].Name)>>

\* the second container has the bad name and the first passes every rule
C5_Witness ==
    /\ validated
    /\ variant = "p0"
    /\ Len(pod.Spec.Containers) = 2
    /\ validateContainer_p0(pod.Spec.Containers[1]) = <<>>
    /\ pod.Spec.Containers[2].Name = sApiUpper
    /\ report = <<ErrArg("containers.name has invalid format", sApiUpper)>>

(***************************************************************************)
(* C1.  The end-to-end document (apiVersion v1, kind Pod, name web, os     *)
(* linux, one container api with the registry image, port 8080/TCP, limits *)
(* cpu 1 and memory 256Mi, no probes, no requests) validates successfully  *)
(* in every variant.                                                       *)
(***************************************************************************)
C1_EndToEndSuccess ==
    validated /\ doc = E2EDoc => report = <<>>

(***************************************************************************)
(* C2.  Probes are checked only when defined (main.go, part_001): a        *)
(* container without probes gives no probe violation, and a defined probe  *)
(* gives one exactly when its httpGet.port is outside 1..65535.            *)
(***************************************************************************)
BadProbes(c) ==
    {n \in {"readinessProbe", "livenessProbe"} : c[n].defined /\ ~InRange(c[n].port)}

C2_ProbeOnlyWhenDefined ==
    validated /\ variant \in {"main", "p1"} /\ Len(doc.containers) = 1 =>
        /\ variant = "main" =>
              Count(report, ProbeMsg) = Cardinality(BadProbes(doc.containers[1]))
        /\ BadProbes(doc.containers[1]) = {} => ~HasMsg(report, ProbeMsg)

(***************************************************************************)
(* C3.  resources.limits.cpu is accepted exactly when it is a positive     *)
(* integer, given as a native integer or as a digit-only string (main.go,  *)
(* part_001): an absent cpu, 0, "0", "2.5", "abc" and a boolean each give  *)
(* a cpu violation, 2 and "2" give none.                                   *)
(***************************************************************************)
PositiveCpu(cpu) ==
    \/ cpu.tag = "int" /\ cpu.v > 0
    \/ cpu.tag = "string" /\ cpuRegex(cpu.s) /\ \E k \in 1..Len(cpu.s) : cpu.s[k] # "0"

C3_CpuPositiveInteger ==
    validated /\ variant \in {"main", "p1"} /\ doc \in CpuDocs =>
        (HasMsg(report, CpuMsg) <=> ~PositiveCpu(doc.containers[1].limits.cpu))

(***************************************************************************)
(* C6.  Process contract of main: a failure before validation exits        *)
(* non-zero with its own message and without calling validatePod; a        *)
(* validation failure exits non-zero after writing the violations; a       *)
(* validation success writes a success message and exits with status 0.    *)
(***************************************************************************)
FailureTexts == {"path to yaml is not provided", "does not exist", "YAML file path is required",
                 "cannot read file", "cannot read file content",
                 "cannot unmarshal file content"}

C6_ProcessContract ==
    pc = "exited" =>
        /\ ~validated =>
              /\ exitCode # 0
              /\ Len(stderr) = 1 /\ stderr[1].text \in FailureTexts
              /\ stdout = <<>>
        /\ validated /\ report # <<>> =>
              /\ exitCode # 0
              /\ OutErrs("validation error", report) \in Range(stdout) \cup Range(stderr)
        /\ validated /\ report = <<>> =>
              /\ exitCode = 0
              /\ stdout # <<>>

(***************************************************************************)
(* C7.  metadata.name must be non-empty after trimming white space: in     *)
(* every variant an empty or blank metadata.name gives the "name is        *)
(* required" violation (apiVersion and kind, checked first, being valid).  *)
(***************************************************************************)
C7_NameRequiredAfterTrim ==
    validated /\ pod.APIVersion = "v1" /\ pod.Kind = "Pod"
              /\ TrimSpace(pod.Metadata.Name) = <<>> =>
        HasMsg(report, NameRequiredMsg)

(***************************************************************************)
(* C8.  resources.limits.memory is required and matches ^\d+(Ki|Mi|Gi)$ in *)
(* every variant: "512Mi" and "0Gi" give no memory violation; an empty     *)
(* memory, "512" and "512GB" each give one (the cpu limit being valid).    *)
(***************************************************************************)
C8_MemoryFormat ==
    validated /\ doc \in MemoryDocs /\ doc.containers[1].limits.cpu = CpuInt(1) =>
        LET mem == doc.containers[1].limits.memory IN
        /\ mem \in {s512Mi, s0Gi} => ~HasMsg(report, MemoryMsg)
        /\ mem \in {<<>>, s512, s512GB} => HasMsg(report, MemoryMsg)

(***************************************************************************)
(* C9.  Fail-fast order (part_000, part_001): the violation returned is    *)
(* the first violated rule in the order apiVersion, kind, metadata.name,   *)
(* os, containers, then per container name, image, ports, probes,          *)
(* resources; a container with an out-of-range probe port and invalid      *)
(* limits reports the probe.                                               *)
(***************************************************************************)
NameRule(c) ==
    IF ~snakeCaseRegex(c.Name)
    THEN <<ErrArg("containers.name has invalid format", c.Name)>> ELSE <<>>

ImageRule(c) ==
    IF ~imageRegex(c.Image)
    THEN <<ErrArg("containers.image has invalid format", c.Image)>> ELSE <<>>

ProbesDefined(d) ==
    \A c \in Range(d.containers) : c.readinessProbe.defined /\ c.livenessProbe.defined

ClaimedOrder(v, c) ==
    FirstErr(<<NameRule(c), ImageRule(c)>>
             \o [j \in 1..Len(c.Ports) |->
                    IF v = "p0" THEN portErrors_p0(c.Ports[j])
                    ELSE validateContainerPort_p1(c.Ports[j])]
             \o <<validateProbe_p1(c.ReadinessProbe, "readinessProbe"),
                  validateProbe_p1(c.LivenessProbe, "livenessProbe"),
                  IF v = "p0" THEN validateResources_p0(c.Resources)
                  ELSE validateResources_p1(c.Resources)>>)

\* stated for the documents that define both probes of every container
C9_FailFastOrder ==
    validated /\ variant \in {"p0", "p1"} /\ DocLevelOK(pod) /\ pod.Spec.Containers # <<>>
              /\ ProbesDefined(doc) =>
        report = FirstErr([i \in 1..Len(pod.Spec.Containers) |->
                              ClaimedOrder(variant, pod.Spec.Containers[i])])

(***************************************************************************)
(* C10.  Collect-all (main.go): the report holds one message for every     *)
(* rule of the catalog the document violates (apiVersion, kind,            *)
(* metadata.name, os, containers, and per container name, image, each      *)
(* port's range and protocol, each defined probe's port, limits cpu and    *)
(* memory), in that order, and is nil exactly when no rule is violated.    *)
(***************************************************************************)
If(b, rule) == IF b THEN <<rule>> ELSE <<>>

CatalogPort(port) ==
    If(~InRange(port.containerPort), "containerPort")
    \o If(port.protocol \notin {"", "TCP", "UDP"}, "protocol")

CatalogContainer(c) ==
    If(TrimSpace(c.name) = <<>>, "name")
    \o If(~imageRegex(c.image), "image")
    \o Concat([j \in 1..Len(c.ports) |-> CatalogPort(c.ports[j])])
    \o If(c.readinessProbe.defined /\ ~InRange(c.readinessProbe.port), "probe")
    \o If(c.livenessProbe.defined /\ ~InRange(c.livenessProbe.port), "probe")
    \o If(~PositiveCpu(c.limits.cpu), "cpu")
    \o If(~memoryRegex(c.limits.memory), "memory")

Catalog(d) ==
    If(d.APIVersion # "v1", "apiVersion")
    \o If(d.kind # "Pod", "kind")
    \o If(d.name = <<>>, "name")
    \o If(d.os \notin {"linux", "windows"}, "os")
    \o If(d.containers = <<>>, "containers")
    \o Concat([i \in 1..Len(d.containers) |-> CatalogContainer(d.containers[i])])

RuleOf(m) ==
    CASE m = "APIVersion must be v1" -> "apiVersion"
      [] m = "kind must be Pod" -> "kind"
      [] m = "name is required" -> "name"
      [] m = "os has unsupported value" -> "os"
      [] m = "spec.containers is required" -> "containers"
      [] m = "container.image is required" -> "image"
      [] m = "container must define at least one port" -> "ports"
      [] m = "containerPort value out of range" -> "containerPort"
      [] m = "port value out of range" -> "probe"
      [] m = "cpu must be int" -> "cpu"

\* stated for the documents that define both probes of every container
C10_CollectAll ==
    validated /\ variant = "main" /\ ProbesDefined(doc) =>
        [i \in 1..Len(report) |-> RuleOf(report[i].msg)] = Catalog(doc)

====
